---- MODULE Spec2Model ----
(***************************************************************************)
(* Model of src/main.py: a capacitive touch pad turned into a BLE HID      *)
(* keyboard that sends one Spacebar press per accepted touch.              *)
(*                                                                         *)
(* The sampling loop of main() is a sequential process whose position is   *)
(* pc.  The radio stack's connect and disconnect callbacks (BLEKeyboard.   *)
(* _irq) are interrupt-style: they run between any two steps of the loop,  *)
(* in particular before and after the hold delay of send_key.              *)
(*                                                                         *)
(* Time is in milliseconds.  elapsed is the true time since the loop was   *)
(* started; the tick counter read by time.ticks_ms() is boot_ticks +       *)
(* elapsed, wrapped at TICKS_PERIOD.  Only the three sleeps of the program *)
(* take time, each exactly its argument.                                   *)
(***************************************************************************)
EXTENDS Integers, Sequences, FiniteSets, TLC

VARIABLES
    pc,              \* position of the sampling loop
    boot_ticks,      \* value of the tick counter when main() starts
    elapsed,         \* true milliseconds since main() started
    val,             \* main: val, the last sensor reading
    now,             \* main: now, the tick value taken at the last acceptance
    last_press_time, \* main: last_press_time
    led,             \* the indicator pin's output
    conn_handle,     \* BLEKeyboard._conn_handle
    payload,         \* BLEKeyboard._payload
    gatts,           \* the stack's local characteristic values
    advertising,     \* radio stack: advertising is running
    advData,         \* radio stack: adv_data of the last gap_advertise call
    advCount,        \* number of gap_advertise calls
    notes,           \* notifications issued since the last send_key call began
    lastEvent,       \* history: kind of the most recent radio event
    lastHandle,      \* radio stack: handle of the connection in being, None without one
    events,          \* history: number of radio events delivered
    discCount,       \* history: number of disconnect events delivered
    calls,           \* history: number of send_key calls made by the loop
    lastCall,        \* history: elapsed time of the most recent send_key call
    entryConnected,  \* history: a connection was active when send_key began
    callClean,       \* history: no radio event and no fault since send_key began
    callRet,         \* history: the most recent send_key call returned normally
    discInCall,      \* history: a disconnect arrived between key-down and key-up
    reads,           \* history: sensor reads completed
    scen,            \* history: the reads so far follow Scenario at poll spacing
    firstCallRead,   \* history: value of reads at the first send_key call
    runCalls,        \* history: send_key calls in the current below-threshold run
    faults,          \* history: number of OSError faults raised so far
    hostLast,        \* history: last frame the connected host was notified of
    idle,            \* history: the part of elapsed spent in long idle periods
    advIn,           \* advertising_payload: the arguments of the call
    advOut           \* advertising_payload: the value returned

loopVars == <<pc, val, now, last_press_time, led>>
timeVars == <<boot_ticks, elapsed, idle>>
bleVars  == <<conn_handle, payload, gatts, advertising, advData, advCount>>
irqHist  == <<lastEvent, lastHandle, events, discCount, hostLast>>
callHist == <<calls, lastCall, entryConnected, callClean, callRet, discInCall>>
readHist == <<reads, scen, firstCallRead, runCalls>>
advVars  == <<advIn, advOut>>
vars == <<loopVars, timeVars, bleVars, notes, irqHist, callHist, readHist, faults,
         advVars>>

(***************************************************************************)
(* Configuration and constants of the program.                             *)
(***************************************************************************)
TOUCH_THRESHOLD == 800
DEBOUNCE_MS == 300
KEY_HOLD_TIME_MS == 75
POLL_MS == 20
BACKOFF_MS == 1000
KEY_SPACE == 44
_ADV_APPEARANCE_KEYBOARD == 961
TICKS_PERIOD == 2^30

\* the absent connection handle; every handle of the stack is >= 0
None == -1

\* "ESP Space"
DefaultName == <<69, 83, 80, 32, 83, 112, 97, 99, 101>>

_HID_REPORT_DESC ==
    <<5, 1, 9, 6, 161, 1, 5, 7, 25, 224, 41, 231,
      21, 0, 37, 1, 117, 1, 149, 8, 129, 2, 149, 1,
      117, 8, 129, 1, 149, 6, 117, 8, 21, 0, 37, 101,
      5, 7, 25, 0, 41, 101, 129, 0, 192>>

(***************************************************************************)
(* Bounds of the model.                                                    *)
(***************************************************************************)
MaxReads == 18
MaxTime == 1400
MaxEvents == 3
MaxHandle == 1
MaxNameLen == 2

Handles == 0..MaxHandle
NameChars == {65, 233}
Names ==
    {<<>>, DefaultName} \cup UNION {[1..n -> NameChars] : n \in 1..MaxNameLen}
Appearances == {0, 1, 255, 256, 961, 32767, 32768, 65535}
Readings == {750, 800, 900}
Scenario == <<900, 900, 750, 900>>
StartTicks == {0, 5000, 2^29 - 40, 2^30 - 40}

(***************************************************************************)
(* struct.pack                                                             *)
(***************************************************************************)
Pack8B(a, b, c, d, e, f, g, h) ==
    <<a % 256, b % 256, c % 256, d % 256, e % 256, f % 256, g % 256, h % 256>>

PackBB(a, b) == <<a % 256, b % 256>>

PackB(a) == <<a % 256>>

\* "<h": two bytes, little-endian
PackLEh(v) == <<v % 256, (v \div 256) % 256>>

(***************************************************************************)
(* advertising_payload                                                     *)
(***************************************************************************)
FlagsByte(limited_disc, br_edr) ==
    (IF limited_disc THEN 2 ELSE 6) + (IF br_edr THEN 0 ELSE 4)

\* The bytes of one character of a str (UTF-8), for code points below 2048.
Utf8(c) == IF c < 128 THEN <<c>> ELSE <<192 + (c \div 64), 128 + (c % 64)>>

RECURSIVE StrBytes(_)
StrBytes(str) == IF str = <<>> THEN <<>> ELSE Utf8(Head(str)) \o StrBytes(Tail(str))

\* _append of a bytes value: len(value) is its number of bytes
Append_(pl, adv_type, value) == pl \o PackBB(Len(value) + 1, adv_type) \o value

\* _append of a str value: len(value) is its number of characters, and the
\* bytes added are those of the str
AppendStr(pl, adv_type, str) == pl \o PackBB(Len(str) + 1, adv_type) \o StrBytes(str)

\* Faulty variant of advertising_payload: the service UUID is emitted before the
\* appearance field.
advertising_payload_UuidEarly(limited_disc, br_edr, name, appearance) ==
    LET p1 == Append_(<<>>, 1, PackB(FlagsByte(limited_disc, br_edr)))
        p2 == IF name # <<>> THEN AppendStr(p1, 9, name) ELSE p1
        p3 == Append_(p2, 3, <<18, 24>>)
    IN  IF appearance # 0 THEN Append_(p3, 25, PackLEh(appearance)) ELSE p3

\* name is a str, given as its sequence of code points; <<>> stands for both
\* None and "", which the code treats alike
advertising_payload(limited_disc, br_edr, name, appearance) ==
    LET p1 == Append_(<<>>, 1, PackB(FlagsByte(limited_disc, br_edr)))
        p2 == IF name # <<>> THEN AppendStr(p1, 9, name) ELSE p1
        p3 == IF appearance # 0 THEN Append_(p2, 25, PackLEh(appearance)) ELSE p2
    IN  Append_(p3, 3, <<18, 24>>)

(***************************************************************************)
(* time.ticks_ms and time.ticks_diff                                       *)
(***************************************************************************)
ticks_ms == (boot_ticks + elapsed) % TICKS_PERIOD

ticks_diff(a, b) ==
    ((a - b + (TICKS_PERIOD \div 2)) % TICKS_PERIOD) - (TICKS_PERIOD \div 2)

(***************************************************************************)
(* The initial state: nothing of main() has run.                           *)
(***************************************************************************)
NoGatts == [h \in {"h_info", "h_rep_map", "h_rep", "h_proto", "h_ctrl"} |-> <<>>]

InitCommon ==
    /\ pc = "boot"
    /\ elapsed = 0
    /\ val = 0
    /\ now = 0
    /\ last_press_time = 0
    /\ led = 0
    /\ conn_handle = None
    /\ payload = <<>>
    /\ gatts = NoGatts
    /\ advertising = FALSE
    /\ advData = <<>>
    /\ advCount = 0
    /\ notes = <<>>
    /\ lastEvent = "none"
    /\ lastHandle = None
    /\ events = 0
    /\ discCount = 0
    /\ calls = 0
    /\ lastCall = 0
    /\ entryConnected = FALSE
    /\ callClean = FALSE
    /\ callRet = FALSE
    /\ discInCall = FALSE
    /\ reads = 0
    /\ scen = TRUE
    /\ firstCallRead = 0
    /\ runCalls = 0
    /\ faults = 0
    /\ hostLast = "none"
    /\ idle = 0

Init ==
    /\ InitCommon
    /\ boot_ticks \in StartTicks
    /\ advIn = [limited_disc |-> FALSE, br_edr |-> FALSE, name |-> DefaultName,
                appearance |-> _ADV_APPEARANCE_KEYBOARD]
    /\ advOut = <<>>

(***************************************************************************)
(* main, lines 112-118, with BLEKeyboard.__init__                          *)
(***************************************************************************)
\* Faulty variant of InitialGatts: the Report Map and the Input Report values swapped.
InitialGatts_Swapped ==
    [h_info    |-> <<17, 1, 0, 2>>,
     h_rep_map |-> <<0, 0, 0, 0, 0, 0, 0, 0>>,
     h_proto   |-> <<1>>,
     h_rep     |-> _HID_REPORT_DESC,
     h_ctrl    |-> <<0>>]

InitialGatts ==
    [h_info    |-> <<17, 1, 0, 2>>,
     h_rep_map |-> _HID_REPORT_DESC,
     h_proto   |-> <<1>>,
     h_rep     |-> <<0, 0, 0, 0, 0, 0, 0, 0>>,
     h_ctrl    |-> <<0>>]

Boot ==
    /\ pc = "boot"
    /\ led' = 0
    /\ gatts' = InitialGatts
    /\ conn_handle' = None
    /\ payload' = advertising_payload(FALSE, FALSE, DefaultName, _ADV_APPEARANCE_KEYBOARD)
    /\ advData' = payload'
    /\ advCount' = advCount + 1
    /\ advertising' = TRUE
    /\ last_press_time' = 0
    /\ pc' = "read"
    /\ UNCHANGED <<val, now, timeVars, notes, irqHist, callHist, readHist, faults, advVars>>

(***************************************************************************)
(* BLEKeyboard._advertise and BLEKeyboard._irq                             *)
(***************************************************************************)
\* Faulty variant of _advertise: gap_advertise is called with no interval,
\* which stops advertising.
_advertise_Stopped ==
    /\ advData' = payload
    /\ advCount' = advCount + 1
    /\ advertising' = FALSE

_advertise ==
    /\ advData' = payload
    /\ advCount' = advCount + 1
    /\ advertising' = TRUE

irq_connect(h) ==
    /\ conn_handle' = h
    /\ UNCHANGED <<advData, advCount>>

\* Faulty variant of irq_disconnect: the handle is cleared, advertising not restarted.
irq_disconnect_NoAdvertise ==
    /\ conn_handle' = None
    /\ UNCHANGED <<advData, advCount, advertising>>

irq_disconnect ==
    /\ conn_handle' = None
    /\ _advertise

\* A host connects: possible only while the device advertises, and the stack
\* stops advertising when the connection is made.
IrqConnect ==
    /\ advertising
    /\ events < MaxEvents
    /\ \E h \in Handles :
         /\ irq_connect(h)
         /\ lastHandle' = h
    /\ advertising' = FALSE
    /\ lastEvent' = "connect"
    /\ hostLast' = "none"
    /\ events' = events + 1
    /\ callClean' = IF pc \in {"hold", "keyup"} THEN FALSE ELSE callClean
    /\ UNCHANGED <<loopVars, timeVars, payload, gatts, notes, discCount, calls,
                   lastCall, entryConnected, callRet, discInCall, readHist, faults, advVars>>

\* The host of the current connection goes away.
IrqDisconnect ==
    /\ lastHandle # None
    /\ events < MaxEvents
    /\ irq_disconnect
    /\ lastEvent' = "disconnect"
    /\ events' = events + 1
    /\ discCount' = discCount + 1
    /\ callClean' = IF pc \in {"hold", "keyup"} THEN FALSE ELSE callClean
    /\ discInCall' = (discInCall \/ pc \in {"hold", "keyup"})
    /\ lastHandle' = None
    /\ hostLast' = "none"
    /\ UNCHANGED <<loopVars, timeVars, payload, gatts, notes, calls,
                   lastCall, entryConnected, callRet, readHist, faults, advVars>>

(***************************************************************************)
(* main, lines 122-136: one iteration of the sampling loop                 *)
(***************************************************************************)
\* Faulty variant of Below: a reading equal to the threshold counts as a touch.
Below_Inclusive(v) == v <= TOUCH_THRESHOLD

Below(v) == v < TOUCH_THRESHOLD

\* Faulty variant of Elapsed: a reading exactly DEBOUNCE_MS after the last one passes.
Elapsed_AtWindow(n, last) == ticks_diff(n, last) >= DEBOUNCE_MS

Elapsed(n, last) == ticks_diff(n, last) > DEBOUNCE_MS

\* touch.read() raises OSError
ReadFault ==
    /\ pc = "read"
    /\ reads < MaxReads
    /\ faults' = faults + 1
    /\ pc' = "backoff"
    /\ scen' = FALSE
    /\ UNCHANGED <<val, now, last_press_time, led, timeVars, bleVars, notes, irqHist,
                   callHist, reads, firstCallRead, runCalls, advVars>>

ReadHist(v) ==
    /\ reads < MaxReads
    /\ reads' = reads + 1
    /\ scen' = (scen /\ reads < Len(Scenario) /\ v = Scenario[reads + 1])

\* lines 124-125, val >= TOUCH_THRESHOLD
ReadAbove ==
    /\ pc = "read"
    /\ \E v \in Readings :
         /\ ~Below(v)
         /\ val' = v
         /\ ReadHist(v)
    /\ runCalls' = 0
    /\ pc' = "sleep"
    /\ UNCHANGED <<now, last_press_time, led, timeVars, bleVars, notes, irqHist,
                   callHist, firstCallRead, faults, advVars>>

\* lines 124-127, val < TOUCH_THRESHOLD inside the debounce window.  The value
\* line 126 gives now is not kept: nothing reads it before the next line 126.
ReadDebounced ==
    /\ pc = "read"
    /\ \E v \in Readings :
         /\ Below(v)
         /\ val' = v
         /\ ReadHist(v)
    /\ ~Elapsed(ticks_ms, last_press_time)
    /\ pc' = "sleep"
    /\ UNCHANGED <<now, last_press_time, led, timeVars, bleVars, notes, irqHist,
                   callHist, firstCallRead, runCalls, faults, advVars>>

\* lines 124-130: the event is accepted, the indicator driven active and
\* send_key called
ReadAccept ==
    /\ pc = "read"
    /\ \E v \in Readings :
         /\ Below(v)
         /\ val' = v
         /\ ReadHist(v)
    /\ now' = ticks_ms
    /\ Elapsed(now', last_press_time)
    /\ led' = 1
    /\ pc' = "send"
    /\ notes' = <<>>
    /\ calls' = calls + 1
    /\ lastCall' = elapsed
    /\ entryConnected' = FALSE
    /\ callClean' = FALSE
    /\ callRet' = FALSE
    /\ discInCall' = FALSE
    /\ firstCallRead' = IF calls = 0 THEN reads' ELSE firstCallRead
    /\ runCalls' = runCalls + 1
    /\ UNCHANGED <<last_press_time, timeVars, bleVars, irqHist, faults, advVars>>

(***************************************************************************)
(* BLEKeyboard.send_key                                                    *)
(***************************************************************************)
\* Faulty variant of Not: the guard of send_key never returns early.
Not_GuardMissing(h) == FALSE

\* "not self._conn_handle"
Not(h) == h = None \/ h = 0

KeyDownFrame(key_code) == Pack8B(0, 0, key_code, 0, 0, 0, 0, 0)

KeyUpFrame == Pack8B(0, 0, 0, 0, 0, 0, 0, 0)

\* gatts_notify: a handle that is no integer is a TypeError; otherwise the
\* stack sends the frame or raises OSError
NotifyOutcomes(h) == IF h = None THEN {"TypeError"} ELSE {"ok", "OSError"}

Note(h, frame) == [conn |-> h, attr |-> "h_rep", data |-> frame, at |-> elapsed]

\* lines 131-132, after send_key has returned
AfterSendKey ==
    /\ led' = 0
    /\ last_press_time' = now
    /\ pc' = "sleep"
    /\ callRet' = TRUE

\* lines 84-85: no connection, the event is dropped
SendKeyDropped ==
    /\ pc = "send"
    /\ Not(conn_handle)
    /\ AfterSendKey
    /\ entryConnected' = (lastEvent = "connect")
    /\ callClean' = TRUE
    /\ UNCHANGED <<val, now, timeVars, bleVars, notes, irqHist, calls, lastCall,
                   discInCall, readHist, faults, advVars>>

\* line 88: the key-down notification
KeyDown ==
    /\ pc = "send"
    /\ ~Not(conn_handle)
    /\ entryConnected' = (lastEvent = "connect")
    /\ \E o \in NotifyOutcomes(conn_handle) :
         /\ notes' = IF o = "ok"
                     THEN Append(notes, Note(conn_handle, KeyDownFrame(KEY_SPACE)))
                     ELSE notes
         /\ pc' = CASE o = "ok" -> "hold"
                    [] o = "OSError" -> "backoff"
                    [] OTHER -> "crashed"
         /\ callClean' = (o = "ok")
         /\ faults' = IF o = "OSError" THEN faults + 1 ELSE faults
         /\ hostLast' = IF o = "ok" THEN "down" ELSE hostLast
    /\ UNCHANGED <<val, now, last_press_time, led, timeVars, bleVars, lastEvent,
                   lastHandle, events, discCount, calls, lastCall, callRet,
                   discInCall, readHist, advVars>>

\* line 91: time.sleep_ms(KEY_HOLD_TIME_MS)
Hold ==
    /\ pc = "hold"
    /\ elapsed - idle + KEY_HOLD_TIME_MS <= MaxTime
    /\ elapsed' = elapsed + KEY_HOLD_TIME_MS
    /\ pc' = "keyup"
    /\ UNCHANGED <<val, now, last_press_time, led, boot_ticks, idle, bleVars, notes,
                   irqHist, callHist, readHist, faults, advVars>>

\* line 94: the key-up notification, on the handle as it is now
KeyUp ==
    /\ pc = "keyup"
    /\ \E o \in NotifyOutcomes(conn_handle) :
         \/ /\ o = "ok"
            /\ notes' = Append(notes, Note(conn_handle, KeyUpFrame))
            /\ AfterSendKey
            /\ hostLast' = "up"
            /\ UNCHANGED <<callClean, faults>>
         \/ /\ o = "OSError"
            /\ pc' = "backoff"
            /\ callClean' = FALSE
            /\ faults' = faults + 1
            /\ UNCHANGED <<notes, led, last_press_time, callRet, hostLast>>
         \/ /\ o = "TypeError"
            /\ pc' = "crashed"
            /\ callClean' = FALSE
            /\ UNCHANGED <<notes, led, last_press_time, callRet, faults, hostLast>>
    /\ UNCHANGED <<val, now, timeVars, bleVars, lastEvent, lastHandle, events,
                   discCount, calls, lastCall, entryConnected, discInCall, readHist,
                   advVars>>

\* line 133: time.sleep_ms(20)
Sleep ==
    /\ pc = "sleep"
    /\ elapsed - idle + POLL_MS <= MaxTime
    /\ elapsed' = elapsed + POLL_MS
    /\ pc' = "read"
    /\ UNCHANGED <<val, now, last_press_time, led, boot_ticks, idle, bleVars, notes,
                   irqHist, callHist, readHist, faults, advVars>>

\* lines 134-136: the fault is caught and the loop backs off
Backoff ==
    /\ pc = "backoff"
    /\ elapsed - idle + BACKOFF_MS <= MaxTime
    /\ elapsed' = elapsed + BACKOFF_MS
    /\ pc' = "read"
    /\ UNCHANGED <<val, now, last_press_time, led, boot_ticks, idle, bleVars, notes,
                   irqHist, callHist, readHist, faults, advVars>>

Next ==
    \/ Boot
    \/ IrqConnect
    \/ IrqDisconnect
    \/ ReadFault
    \/ ReadAbove
    \/ ReadDebounced
    \/ ReadAccept
    \/ SendKeyDropped
    \/ KeyDown
    \/ Hold
    \/ KeyUp
    \/ Sleep
    \/ Backoff

Spec == Init /\ [][Next]_vars

(***************************************************************************)
(* The loop left alone for a long time: IdleReads consecutive iterations   *)
(* of lines 122-124 and 133 in which every reading is at or above the      *)
(* threshold, taken as one step.  IdleReads polls last just over half the  *)
(* period of the tick counter.  One such period is explored per run, after *)
(* an accepted event; reads counts only the reads taken one at a time.     *)
(***************************************************************************)
IdleReads == (TICKS_PERIOD \div 2) \div POLL_MS + 1

LongIdle ==
    /\ pc = "read"
    /\ idle = 0
    /\ calls > 0
    /\ \E v \in Readings :
         /\ ~Below(v)
         /\ val' = v
    /\ elapsed' = elapsed + IdleReads * POLL_MS
    /\ idle' = IdleReads * POLL_MS
    /\ scen' = FALSE
    /\ runCalls' = 0
    /\ pc' = "read"
    /\ UNCHANGED <<now, last_press_time, led, boot_ticks, bleVars, notes, irqHist,
                   callHist, reads, firstCallRead, faults, advVars>>

NextLong ==
    \/ Next
    \/ LongIdle

SpecLong == Init /\ [][NextLong]_vars

(***************************************************************************)
(* advertising_payload on its own: the arguments are drawn from bounded    *)
(* sets and the function is called, any number of times.                   *)
(***************************************************************************)
InitAdv ==
    /\ InitCommon
    /\ boot_ticks = 0
    /\ advIn \in [limited_disc : BOOLEAN, br_edr : BOOLEAN, name : Names,
                  appearance : Appearances]
    /\ advOut = <<>>

AdvCall ==
    /\ advOut' = advertising_payload(advIn.limited_disc, advIn.br_edr, advIn.name,
                                     advIn.appearance)
    /\ UNCHANGED <<advIn, loopVars, timeVars, bleVars, notes, irqHist, callHist,
                   readHist, faults>>

NextAdv == AdvCall

SpecAdv == InitAdv /\ [][NextAdv]_vars

(***************************************************************************)
(* The claims.                                                             *)
(***************************************************************************)
Zero8 == <<0, 0, 0, 0, 0, 0, 0, 0>>

\* C1: a send_key call made while a connection is active, with no radio event
\* and no fault during the call, issues exactly two notifications on the Input
\* Report characteristic: the key-down frame (the code at index 2, zeros
\* elsewhere), then the all-zero frame at least KEY_HOLD_TIME_MS later; for
\* every handle a connect event can deliver, 0 included.
C1_ConnectedSendKeyNotifiesTwice ==
    (callRet /\ entryConnected /\ callClean) =>
        /\ Len(notes) = 2
        /\ notes[1].attr = "h_rep" /\ notes[2].attr = "h_rep"
        /\ notes[1].data = <<0, 0, KEY_SPACE, 0, 0, 0, 0, 0>>
        /\ notes[2].data = Zero8
        /\ notes[2].at - notes[1].at >= KEY_HOLD_TIME_MS

\* C2: a send_key call made while no connection is active issues no
\* notification, at the call or at any time after it (radio events included),
\* and returns at once; the touch is not kept for later.
C2_DisconnectedSendKeyDropped ==
    (calls > 0 /\ pc # "send" /\ ~entryConnected) =>
        /\ notes = <<>>
        /\ pc \in {"sleep", "read", "backoff"}
        /\ callRet

C2_Witness ==
    /\ calls >= 2
    /\ callRet
    /\ ~entryConnected
    /\ lastEvent = "connect"
    /\ pc = "read"
    /\ notes = <<>>

\* C3: two successive send_key calls of the loop are more than DEBOUNCE_MS
\* apart in true time, faults and backoffs included.
C3_AcceptedEventsDebounced ==
    [][(calls' = calls + 1 /\ calls > 0) => elapsed' - lastCall > DEBOUNCE_MS]_vars

\* the first call raised a fault (last_press_time was never written), the loop
\* backed off, and a second call was made
C3_Witness ==
    /\ calls = 2
    /\ pc = "send"
    /\ boot_ticks = 5000
    /\ last_press_time = 0
    /\ elapsed - lastCall = 0

\* C4: an iteration whose reading is at or above TOUCH_THRESHOLD makes no
\* send_key call and changes neither the debounce timestamp, the indicator nor
\* the notifications; send_key is called only on a reading below the threshold.
C4_ThresholdNecessary ==
    [][/\ (reads' = reads + 1 /\ val' >= TOUCH_THRESHOLD) =>
             /\ pc' = "sleep"
             /\ UNCHANGED <<calls, last_press_time, led, notes>>
       /\ (calls' # calls) => val' < TOUCH_THRESHOLD]_vars

\* a reading equal to the threshold, taken after the debounce window of an
\* earlier accepted event has passed, was not accepted
C4_Witness ==
    /\ pc = "sleep"
    /\ val = TOUCH_THRESHOLD
    /\ calls = 1
    /\ elapsed - lastCall > DEBOUNCE_MS

\* C5: with the readings 900, 900, 750, 900 at poll spacing from startup,
\* exactly one send_key call is made, in the iteration of the third reading,
\* whatever the tick counter was when the loop started.
C5_FirstTouchAccepted ==
    (scen /\ reads = Len(Scenario)) => (calls = 1 /\ firstCallRead = 3)

\* C6: in one run of consecutive readings below the threshold, send_key is
\* called at most once (stated here for the executions without any fault, where
\* the readings of the run are one poll interval apart).
C6_NoAutoRepeat == (faults = 0) => (runCalls <= 1)

\* C7: a disconnect delivered between the key-down and the key-up notification
\* leaves the sampling loop running.
C7_DisconnectWhilePendingSurvives == discInCall => pc # "crashed"

\* C8: the stored handle is absent exactly when the most recent radio event
\* was a disconnect or there was none, and is the handle of the most recent
\* connect otherwise; advertising was invoked once at startup and once per
\* disconnect, each time with the payload built at startup.
C8_ConnectionStateMachine ==
    /\ (conn_handle = None) <=> (lastEvent \in {"none", "disconnect"})
    /\ (lastEvent = "connect") => (conn_handle = lastHandle)
    /\ (pc # "boot") =>
          /\ advCount = 1 + discCount
          /\ advData = payload
          /\ payload = <<2, 1, 10, 10, 9, 69, 83, 80, 32, 83, 112, 97, 99, 101,
                         3, 25, 193, 3, 3, 3, 18, 24>>
          /\ advertising = (lastEvent # "connect")

C8_Witness ==
    /\ events = 3
    /\ discCount = 1
    /\ lastEvent = "connect"
    /\ conn_handle = 0
    /\ advCount = 2

\* C9: once initialised, the Report Map characteristic holds the 45-byte
\* report descriptor in every state, and the Input Report characteristic holds
\* 8 zero bytes until a key event.
C9_ReportMapFixed ==
    (pc # "boot") =>
        /\ gatts.h_rep_map = _HID_REPORT_DESC
        /\ Len(gatts.h_rep_map) = 45
        /\ (calls = 0) => (gatts.h_rep = Zero8)

C9_Witness ==
    /\ Len(notes) = 2
    /\ discCount = 1
    /\ gatts.h_rep_map = _HID_REPORT_DESC
    /\ gatts.h_rep = Zero8

Suffix(seq, n) == SubSeq(seq, Len(seq) - n + 1, Len(seq))

\* C10: every payload advertising_payload returns ends with the 16-bit
\* service-UUID field 03 03 12 18, and for name "ESP Space", appearance 961
\* and default flags every call returns the same 22 bytes.
C10_PayloadUuidLast ==
    (advOut # <<>>) =>
        /\ Len(advOut) >= 4
        /\ Suffix(advOut, 4) = <<3, 3, 18, 24>>
        /\ (advIn = [limited_disc |-> FALSE, br_edr |-> FALSE, name |-> DefaultName,
                     appearance |-> _ADV_APPEARANCE_KEYBOARD]) =>
              advOut = <<2, 1, 10, 10, 9, 69, 83, 80, 32, 83, 112, 97, 99, 101,
                         3, 25, 193, 3, 3, 3, 18, 24>>

C10_Witness ==
    /\ advOut # <<>>
    /\ advIn.name = DefaultName
    /\ advIn.appearance = _ADV_APPEARANCE_KEYBOARD
    /\ ~advIn.limited_disc
    /\ ~advIn.br_edr

\* C11: the sampling loop never terminates: whatever fault a sensor read or a
\* notification raises inside an iteration, the loop is still running afterwards
\* (it is never left by a fault that reaches the top of main).
C11_LoopNeverTerminates == pc # "crashed"

\* C12: outside the hold delay of a send_key call, the host that is connected
\* never has a key-down as the last frame it was notified of: every key-down
\* was followed by a key-up to that host before the call ended.
C12_KeyDownThenKeyUp ==
    (pc \notin {"hold", "keyup"}) => (hostLast # "down")

\* C13: the two notifications of one send_key call go to the same connection
\* handle, and the key-up notification is never attempted with no handle (the
\* only fault that ends the loop).
C13_SameHandleBothNotifies ==
    /\ (Len(notes) = 2) => (notes[2].conn = notes[1].conn)
    /\ ~(pc = "crashed" /\ conn_handle = None)

\* C14: the indicator is inactive at every sensor read and during every poll
\* sleep and every backoff sleep.
C14_LedOffOutsideSendKey ==
    (pc \in {"read", "sleep", "backoff"}) => (led = 0)

\* The reading of the tick counter at the last accepted event.
AcceptTick == (boot_ticks + lastCall) % TICKS_PERIOD

\* C15: once the iteration of an accepted event is over (normally, by a dropped
\* transmission or by a fault), the debounce timestamp is the tick-counter
\* reading taken when that event was accepted.
C15_TimestampRecorded ==
    (calls > 0 /\ pc \in {"read", "sleep", "backoff"}) => (last_press_time = AcceptTick)

\* C16: in runs without faults, a below-threshold reading taken after an earlier
\* accepted event is accepted (send_key is called in that iteration) exactly
\* when more than DEBOUNCE_MS of true time have passed since that event,
\* whatever the tick counter reads and however long the loop has been idle.
C16_AcceptedByElapsedTime ==
    [][(faults = 0 /\ calls > 0 /\ reads' = reads + 1 /\ Below(val'))
         => ((calls' = calls + 1) <=> (elapsed - lastCall > DEBOUNCE_MS))]_vars

\* C17: the payload starts with the flags field [2, 0x01, f], and any other
\* setting of (limited_disc, br_edr) gives, for the same name and appearance,
\* a different flags byte f: the four settings yield four distinct bytes.
C17_FlagsDistinct ==
    (advOut # <<>>) =>
        /\ SubSeq(advOut, 1, 2) = <<2, 1>>
        /\ \A l \in BOOLEAN, b \in BOOLEAN :
             (<<l, b>> # <<advIn.limited_disc, advIn.br_edr>>)
               => (advertising_payload(l, b, advIn.name, advIn.appearance)[3] # advOut[3])

\* A payload read back as a host reads it: a sequence of fields
\* [length][type][value...], length counting the type and the value bytes.
\* A length of 0, or one that runs past the end, gives a field of type -1.
RECURSIVE ParseFields(_)
ParseFields(p) ==
    IF p = <<>> THEN <<>>
    ELSE IF Len(p) < 2 \/ p[1] < 1 \/ 1 + p[1] > Len(p)
         THEN <<[type |-> -1, value |-> p]>>
         ELSE <<[type |-> p[2], value |-> SubSeq(p, 3, 1 + p[1])]>>
              \o ParseFields(SubSeq(p, 2 + p[1], Len(p)))

\* The fields the payload must hold after the flags field, in order.
ExpectedFields(name, appearance) ==
    (IF name # <<>> THEN <<[type |-> 9, value |-> StrBytes(name)]>> ELSE <<>>)
    \o (IF appearance # 0
        THEN <<[type |-> 25, value |-> <<appearance % 256, appearance \div 256>>]>>
        ELSE <<>>)
    \o <<[type |-> 3, value |-> <<18, 24>>]>>

\* C18: for every name and every appearance code, the payload reads back as
\* well-formed fields in the order flags (one byte), complete local name (iff
\* the name is not empty, value = the bytes of the name), appearance (iff the
\* code is not 0, value = the code as two bytes, little-endian), service UUID.
C18_PayloadWellFormed ==
    (advOut # <<>>) =>
        LET f == ParseFields(advOut)
        IN  /\ Len(f) >= 1
            /\ f[1].type = 1
            /\ Len(f[1].value) = 1
            /\ Tail(f) = ExpectedFields(advIn.name, advIn.appearance)

\* C19: in every state after initialization in which the stack has no host
\* connected, the device is advertising, with the payload built at
\* initialization.
C19_DiscoverableWhenDisconnected ==
    (pc # "boot" /\ lastHandle = None) => (advertising /\ advData = payload)

\* A host has connected and gone, during a send_key call that then ended the
\* loop: the device is advertising again.
C19_Witness ==
    /\ pc = "crashed"
    /\ discCount = 1
    /\ lastHandle = None
    /\ advertising
    /\ advCount = 2

====
